---- MODULE Spec2Model ----
(***************************************************************************)
(* Model of mula's coalescing coordinator (src/src/lib.rs).                *)
(*                                                                         *)
(* Caller threads run Mula::subscribe_to; for every key first seen, a      *)
(* background execution thread is spawned that runs the work closure and   *)
(* then broadcasts the result on the key's Bus.  Every statement of        *)
(* subscribe_to, of the spawned closure and of Bus::broadcast that another *)
(* thread can observe is one action.                                       *)
(***************************************************************************)
EXTENDS Integers, Sequences, FiniteSets, TLC

\* ------------------------------------------------------------------ bounds
NumCallers == 3
NumKeys == 2

\* --------------------------------------------------------------- constants
KeySeq == <<"kov", "kovera", "kovid", "mula", "burro">>
Keys == {KeySeq[i] : i \in 1..NumKeys}
Callers == 1..NumCallers
NoKey == "-"
NoVal == "-"

\* The work closure of the tests and the examples: input.to_uppercase().
to_uppercase(s) ==
    CASE s = "kov" -> "KOV"
      [] s = "kovera" -> "KOVERA"
      [] s = "kovid" -> "KOVID"
      [] s = "mula" -> "MULA"
      [] s = "burro" -> "BURRO"
      [] OTHER -> s

work(input) == to_uppercase(input)

Values == {work(k) : k \in Keys}

VARIABLES
    pc,             \* position of each caller thread inside subscribe_to
    input,          \* the key each caller passed to subscribe_to
    output,         \* the value subscribe_to handed back to each caller
    lock,           \* holder of the parking_lot Mutex around the map
    map,            \* keys that have a Bus stored in the HashMap
    weak_receivers, \* per Bus: the Weak handles pushed so far (by caller)
    channel,        \* per Bus: the spmc queue, messages sent and not taken
    wstep,          \* per key: position of the spawned execution thread
    result,         \* per key: value the execution got from work
    bidx,           \* per key: index of broadcast's loop over weak_receivers
    spawned,        \* per key: number of std::thread::spawn calls so far
    started,        \* per caller: this call ran the or_insert_with closure
    regclass,       \* per caller: when its handle was minted w.r.t. the pass
    lateIssue,      \* per caller: issued after a call for its key completed
    published,      \* per key: number of sender.send calls so far
    passes,         \* per key: number of broadcast calls that have ended
    cell,           \* the wrapper's static OnceCell: "uninit", "running", "set"
    created,        \* number of Mula::new calls so far
    mref,           \* per caller: the coordinator get_or_init handed it
    liveAtPass,     \* per key: handles live when the execution took the lock
    earlyFinish     \* per key: work returned before the Bus was inserted

vars == <<pc, input, output, lock, map, weak_receivers, channel, wstep,
          result, bidx, spawned, started, regclass, lateIssue, published,
          passes, cell, created, mref, liveAtPass, earlyFinish>>

wrapVars == <<cell, created, mref>>
passVars == <<liveAtPass, earlyFinish>>
callerVars == <<pc, input, output, started, regclass, lateIssue>>
busVars == <<map, weak_receivers, channel>>
workerVars == <<wstep, result, bidx, published, passes>>

\* ------------------------------------------------------------------- lock
Free == [kind |-> "free", c |-> 0, k |-> NoKey]
HeldByCaller(t) == [kind |-> "caller", c |-> t, k |-> NoKey]
HeldByWorker(k) == [kind |-> "worker", c |-> 0, k |-> k]

\* parking_lot::Mutex: lock() goes through only when nobody holds it.
MutexAvailableAlways == TRUE

MutexAvailable == lock = Free

\* The map guard stays alive from map.lock() until drop(map): it is still
\* held after the Bus was inserted, and it is released before recv.
AfterInsertReleased(t) == Free

AfterInsert(t) == HeldByCaller(t)

AfterDropMapHeld(t) == HeldByCaller(t)

AfterDropMap(t) == Free

\* The map when a broadcast has ended: nothing removes the key's Bus.
MapAfterBroadcastEvicted(k) == map \ {k}

MapAfterBroadcast(k) == map

\* once_cell's get_or_init runs its closure only for an empty cell.
CellVacantAlways == TRUE

CellVacant == cell = "uninit"

\* -------------------------------------------------- the spawned execution
\* Order of the statements of the spawned closure: run work, then lock the
\* map, then broadcast.
WorkerOrderLockFirst == <<"lock", "work", "broadcast">>

WorkerOrderLockLast == <<"work", "broadcast", "lock">>

WorkerOrder == <<"work", "lock", "broadcast">>

\* wstep: 0 = not spawned, 1..3 = index into WorkerOrder, 4 = finished,
\* 5 = the thread panicked.
WStepDone == 4
WStepPanicked == 5

WPhase(k) ==
    CASE wstep[k] = 0 -> "none"
      [] wstep[k] \in 1..3 -> WorkerOrder[wstep[k]]
      [] wstep[k] = WStepDone -> "done"
      [] OTHER -> "panicked"

\* map.entry(input).or_insert_with(..) runs the closure only for a vacant
\* entry.
KeyAbsentOrFinished(k) == k \notin map \/ wstep[k] = WStepDone

KeyAbsentAlways(k) == TRUE

KeyAbsent(k) == k \notin map

\* The key the execution looks up in the map for its broadcast.
BroadcastKeyFirst(k) == KeySeq[1]

BroadcastKey(k) == k

\* Arc strong count of the caller's Receiver handle: alive from
\* add_receiver until subscribe_to returns.
strong_count(t) == IF pc[t] \in {"drop", "recv", "ret"} THEN 1 ELSE 0

\* Arc strong count of the coordinator: the static cell of the wrapper, the
\* mula argument of every running subscribe_to, its thread_mula clone until
\* the entry lookup consumed or dropped it, and the thread_mula that every
\* running execution owns.
mula_strong_count_executions ==
    Cardinality({k \in Keys : wstep[k] \in 1..3})

mula_strong_count ==
    (IF cell = "set" THEN 1 ELSE 0)
    + Cardinality({t \in Callers : pc[t] \in {"lock", "entry", "insert",
                       "add_receiver", "drop", "recv", "ret"}})
    + Cardinality({t \in Callers : pc[t] \in {"lock", "entry"}})
    + Cardinality({k \in Keys : wstep[k] \in 1..3})

\* The spmc Sender of a key lives inside the Bus inside the map inside the
\* coordinator.
sender_alive(k) == k \in map /\ mula_strong_count > 0

\* ------------------------------------------------------------------- Init
Init ==
    /\ pc = [t \in Callers |-> "idle"]
    /\ input = [t \in Callers |-> NoKey]
    /\ output = [t \in Callers |-> NoVal]
    /\ lock = Free
    /\ map = {}
    /\ weak_receivers = [k \in Keys |-> <<>>]
    /\ channel = [k \in Keys |-> <<>>]
    /\ wstep = [k \in Keys |-> 0]
    /\ result = [k \in Keys |-> NoVal]
    /\ bidx = [k \in Keys |-> 1]
    /\ spawned = [k \in Keys |-> 0]
    /\ started = [t \in Callers |-> FALSE]
    /\ regclass = [t \in Callers |-> "none"]
    /\ lateIssue = [t \in Callers |-> FALSE]
    /\ published = [k \in Keys |-> 0]
    /\ passes = [k \in Keys |-> 0]
    /\ cell = "uninit"
    /\ created = 0
    /\ mref = [t \in Callers |-> 0]
    /\ liveAtPass = [k \in Keys |-> {}]
    /\ earlyFinish = [k \in Keys |-> FALSE]

\* ------------------------------------------------------------ subscribe_to
\* A thread calls the function generated by #[mula] with argument k.
Call(t, k) ==
    /\ pc[t] = "idle"
    /\ pc' = [pc EXCEPT ![t] = "get_or_init"]
    /\ input' = [input EXCEPT ![t] = k]
    /\ lateIssue' = [lateIssue EXCEPT ![t] =
            \E u \in Callers : input[u] = k /\ pc[u] \in {"ret", "done"}]
    /\ UNCHANGED <<output, lock, busVars, workerVars, spawned, started,
                   regclass>>
    /\ UNCHANGED <<wrapVars, passVars>>

\* #mula_ident.get_or_init(|| ..): the first caller runs the closure, a
\* caller that arrives while the closure runs waits, later callers get the
\* stored coordinator.
GetOrInit(t) ==
    /\ pc[t] = "get_or_init"
    /\ cell # "running"
    /\ IF CellVacant
       THEN /\ cell' = "running"
            /\ pc' = [pc EXCEPT ![t] = "new"]
            /\ mref' = mref
       ELSE /\ mref' = [mref EXCEPT ![t] = created]
            /\ pc' = [pc EXCEPT ![t] = "lock"]
            /\ cell' = cell
    /\ UNCHANGED <<input, output, lock, busVars, workerVars, spawned,
                   started, regclass, lateIssue, created, passVars>>

\* ::mula::Mula::new(&#wrapped_ident) inside the get_or_init closure; the
\* wrapper then calls subscribe_to(m.clone(), input.clone()).
MulaNew(t) ==
    /\ pc[t] = "new"
    /\ created' = created + 1
    /\ cell' = "set"
    /\ mref' = [mref EXCEPT ![t] = created + 1]
    /\ pc' = [pc EXCEPT ![t] = "lock"]
    /\ UNCHANGED <<input, output, lock, busVars, workerVars, spawned,
                   started, regclass, lateIssue, passVars>>

\* let mut map = mula.map.lock();
Lock(t) ==
    /\ pc[t] = "lock"
    /\ MutexAvailable
    /\ lock' = HeldByCaller(t)
    /\ pc' = [pc EXCEPT ![t] = "entry"]
    /\ UNCHANGED <<input, output, busVars, workerVars, spawned, started,
                   regclass, lateIssue>>
    /\ UNCHANGED <<wrapVars, passVars>>

\* map.entry(input.clone()).or_insert_with(|| { std::thread::spawn(..); ..})
\* up to and including the spawn.
Entry(t) ==
    /\ pc[t] = "entry"
    /\ IF KeyAbsent(input[t])
       THEN /\ wstep' = [wstep EXCEPT ![input[t]] = 1]
            /\ bidx' = [bidx EXCEPT ![input[t]] = 1]
            /\ spawned' = [spawned EXCEPT ![input[t]] = @ + 1]
            /\ started' = [started EXCEPT ![t] = TRUE]
            /\ pc' = [pc EXCEPT ![t] = "insert"]
       ELSE /\ pc' = [pc EXCEPT ![t] = "add_receiver"]
            /\ UNCHANGED <<wstep, bidx, spawned, started>>
    /\ UNCHANGED <<input, output, lock, busVars, result, published,
                   passes, regclass, lateIssue>>
    /\ UNCHANGED <<wrapVars, passVars>>

\* Bus::new() and the insertion of the new Bus by or_insert_with.
Insert(t) ==
    /\ pc[t] = "insert"
    /\ map' = map \cup {input[t]}
    /\ IF input[t] \in map
       THEN UNCHANGED <<weak_receivers, channel>>
       ELSE /\ weak_receivers' = [weak_receivers EXCEPT ![input[t]] = <<>>]
            /\ channel' = [channel EXCEPT ![input[t]] = <<>>]
    /\ lock' = AfterInsert(t)
    /\ pc' = [pc EXCEPT ![t] = "add_receiver"]
    /\ UNCHANGED <<input, output, workerVars, spawned, started,
                   regclass, lateIssue>>
    /\ UNCHANGED <<wrapVars, passVars>>

\* let receiver = bus.add_receiver();
AddReceiver(t) ==
    /\ pc[t] = "add_receiver"
    /\ weak_receivers' =
          [weak_receivers EXCEPT ![input[t]] = Append(@, t)]
    /\ regclass' = [regclass EXCEPT ![t] =
          IF passes[input[t]] > 0 THEN "late" ELSE "early"]
    /\ pc' = [pc EXCEPT ![t] = "drop"]
    /\ UNCHANGED <<input, output, lock, map, channel, workerVars, spawned,
                   started, lateIssue>>
    /\ UNCHANGED <<wrapVars, passVars>>

\* drop(bus); drop(map);
DropMap(t) ==
    /\ pc[t] = "drop"
    /\ lock' = AfterDropMap(t)
    /\ pc' = [pc EXCEPT ![t] = "recv"]
    /\ UNCHANGED <<input, output, busVars, workerVars, spawned, started,
                   regclass, lateIssue>>
    /\ UNCHANGED <<wrapVars, passVars>>

\* receiver.recv().unwrap(): blocks until the queue holds a message or the
\* Sender is gone; in the second case recv is an Err and the unwrap panics.
Recv(t) ==
    /\ pc[t] = "recv"
    /\ channel[input[t]] # <<>> \/ ~sender_alive(input[t])
    /\ IF channel[input[t]] # <<>>
       THEN /\ output' = [output EXCEPT ![t] = Head(channel[input[t]])]
            /\ channel' = [channel EXCEPT ![input[t]] = Tail(@)]
            /\ pc' = [pc EXCEPT ![t] = "ret"]
       ELSE /\ pc' = [pc EXCEPT ![t] = "failed"]
            /\ UNCHANGED <<output, channel>>
    /\ UNCHANGED <<input, lock, map, weak_receivers, workerVars, spawned,
                   started, regclass, lateIssue>>
    /\ UNCHANGED <<wrapVars, passVars>>

\* subscribe_to returns: the caller's Receiver handle is dropped.
Return(t) ==
    /\ pc[t] = "ret"
    /\ pc' = [pc EXCEPT ![t] = "done"]
    /\ UNCHANGED <<input, output, lock, busVars, workerVars, spawned,
                   started, regclass, lateIssue>>
    /\ UNCHANGED <<wrapVars, passVars>>

\* ------------------------------------------------- the spawned execution
\* let result = (thread_mula.work)(input);
RunWork(k) ==
    /\ WPhase(k) = "work"
    /\ result' = [result EXCEPT ![k] = work(k)]
    /\ wstep' = [wstep EXCEPT ![k] = @ + 1]
    /\ earlyFinish' = [earlyFinish EXCEPT ![k] = k \notin map]
    /\ UNCHANGED <<callerVars, lock, busVars, bidx, spawned, published,
                   passes>>
    /\ UNCHANGED <<wrapVars, liveAtPass>>

\* work panics: the thread unwinds, nothing after the call runs.
WorkPanic(k) ==
    /\ WPhase(k) = "work"
    /\ wstep' = [wstep EXCEPT ![k] = WStepPanicked]
    /\ lock' = IF lock = HeldByWorker(k) THEN Free ELSE lock
    /\ UNCHANGED <<callerVars, busVars, result, bidx, spawned, published,
                   passes>>
    /\ UNCHANGED <<wrapVars, passVars>>

\* let mut map = thread_mula.map.lock();
WorkerLock(k) ==
    /\ WPhase(k) = "lock"
    /\ MutexAvailable
    /\ lock' = HeldByWorker(k)
    /\ wstep' = [wstep EXCEPT ![k] = @ + 1]
    /\ liveAtPass' = [liveAtPass EXCEPT ![k] =
          {t \in Callers : input[t] = k /\ strong_count(t) > 0}]
    /\ UNCHANGED <<callerVars, busVars, result, bidx, spawned, published,
                   passes>>
    /\ UNCHANGED <<wrapVars, earlyFinish>>

\* One iteration of the loop of Bus::broadcast, on the Bus that
\* map.get_mut(&key).unwrap() returned.
BroadcastStep(k) ==
    /\ WPhase(k) = "broadcast"
    /\ BroadcastKey(k) \in map
    /\ bidx[k] <= Len(weak_receivers[BroadcastKey(k)])
    /\ IF strong_count(weak_receivers[BroadcastKey(k)][bidx[k]]) > 0
       THEN /\ channel' = [channel EXCEPT ![BroadcastKey(k)] =
                              Append(@, result[k])]
            /\ published' = [published EXCEPT ![k] = @ + 1]
       ELSE UNCHANGED <<channel, published>>
    /\ bidx' = [bidx EXCEPT ![k] = @ + 1]
    /\ UNCHANGED <<callerVars, lock, map, weak_receivers, wstep, result,
                   spawned, passes>>
    /\ UNCHANGED <<wrapVars, passVars>>

\* The loop is over (or the unwrap of get_mut failed): the closure ends and
\* its map guard is dropped.
BroadcastEnd(k) ==
    /\ WPhase(k) = "broadcast"
    /\ \/ BroadcastKey(k) \notin map
       \/ bidx[k] > Len(weak_receivers[BroadcastKey(k)])
    /\ wstep' = [wstep EXCEPT ![k] =
          IF BroadcastKey(k) \in map THEN WStepDone ELSE WStepPanicked]
    /\ passes' = [passes EXCEPT ![k] =
          IF BroadcastKey(k) \in map THEN @ + 1 ELSE @]
    /\ lock' = IF lock = HeldByWorker(k) THEN Free ELSE lock
    /\ map' = MapAfterBroadcast(k)
    /\ UNCHANGED <<callerVars, weak_receivers, channel, result, bidx,
                   spawned, published>>
    /\ UNCHANGED <<wrapVars, passVars>>

\* ------------------------------------------------------------------- Next
Next ==
    \/ \E t \in Callers, k \in Keys : Call(t, k)
    \/ \E t \in Callers : GetOrInit(t)
    \/ \E t \in Callers : MulaNew(t)
    \/ \E t \in Callers : Lock(t)
    \/ \E t \in Callers : Entry(t)
    \/ \E t \in Callers : Insert(t)
    \/ \E t \in Callers : AddReceiver(t)
    \/ \E t \in Callers : DropMap(t)
    \/ \E t \in Callers : Recv(t)
    \/ \E t \in Callers : Return(t)
    \/ \E k \in Keys : RunWork(k)
    \/ \E k \in Keys : WorkPanic(k)
    \/ \E k \in Keys : WorkerLock(k)
    \/ \E k \in Keys : BroadcastStep(k)
    \/ \E k \in Keys : BroadcastEnd(k)

Spec == Init /\ [][Next]_vars

\* --------------------------------------------------------- shared notions
CallersOf(k) == {t \in Callers : pc[t] # "idle" /\ input[t] = k}

\* Nothing but a new call can happen any more: every execution has ended
\* and every caller has either returned or waits on an empty channel.
AtRest ==
    /\ lock = Free
    /\ \A k \in Keys : WPhase(k) \in {"none", "done", "panicked"}
    /\ \A t \in Callers :
          \/ pc[t] \in {"idle", "done"}
          \/ pc[t] = "recv" /\ channel[input[t]] = <<>>

C2_AllConcurrentRequestsReturn ==
    \A k \in Keys :
        (/\ AtRest
         /\ WPhase(k) = "done"
         /\ \A t \in CallersOf(k) : ~lateIssue[t])
        => /\ spawned[k] = 1
           /\ \A t \in CallersOf(k) :
                 pc[t] = "done" /\ output[t] = work(k)

\* C3 (as claimed): a caller whose handle was registered before its key's
\* delivery pass has returned once the system is at rest, whenever the
\* execution for the key ended normally.
C3_EarlyWaitersReturn ==
    \A t \in Callers :
        (/\ AtRest
         /\ regclass[t] = "early"
         /\ WPhase(input[t]) = "done")
        => pc[t] = "done"

\* C4: a value handed back by subscribe_to(K), and every message queued on
\* K's channel, is the value work produces for K.
C4_ValueFidelity ==
    /\ \A t \in Callers :
          pc[t] \in {"ret", "done"} => output[t] = work(input[t])
    /\ \A k \in Keys : \A i \in 1..Len(channel[k]) :
          channel[k][i] = work(k)

C4_Witness ==
    \E t, u \in Callers :
        /\ input[t] # input[u]
        /\ pc[t] = "done"
        /\ pc[u] = "done"
        /\ output[t] # output[u]

\* C5 (as claimed): every call of subscribe_to has returned once the system
\* is at rest, unless work for its key failed.
C5_EveryCallReturns ==
    \A t \in Callers :
        (/\ AtRest
         /\ pc[t] # "idle"
         /\ WPhase(input[t]) # "panicked")
        => pc[t] = "done"

\* C6: requests for distinct keys do not block on each other: an execution
\* never holds the map lock while it runs work, a thread that holds the
\* lock is at a statement that does not block (never in recv), and a caller
\* waits only for the lock or for a message on its own key's channel.
C6_DistinctKeysIndependent ==
    /\ \A k \in Keys : WPhase(k) = "work" => lock # HeldByWorker(k)
    /\ lock.kind = "worker" => WPhase(lock.k) = "broadcast"
    /\ lock.kind = "caller" =>
          pc[lock.c] \in {"entry", "insert", "add_receiver", "drop"}
    /\ \A t \in Callers :
          /\ (pc[t] = "lock" /\ lock = Free) => ENABLED Lock(t)
          /\ (pc[t] = "recv" /\ channel[input[t]] # <<>>) => ENABLED Recv(t)
          /\ pc[t] \in {"entry", "insert", "add_receiver", "drop", "ret"}
                => ENABLED (Entry(t) \/ Insert(t) \/ AddReceiver(t)
                              \/ DropMap(t) \/ Return(t))

C6_Witness ==
    \E k1, k2 \in Keys : \E t \in Callers :
        /\ k1 # k2
        /\ WPhase(k1) = "work"
        /\ input[t] = k2
        /\ started[t]
        /\ pc[t] = "done"
        /\ output[t] = work(k2)

\* C7 (as claimed): a call that looks its key up while no computation for
\* the key is running (none was started, or the earlier one has delivered)
\* starts the computation.
C7_StartsWhenNotRunning ==
    [][\A t \in Callers :
          (/\ pc[t] = "entry"
           /\ pc'[t] # "entry"
           /\ WPhase(input[t]) \in {"none", "done"})
          => spawned'[input[t]] = spawned[input[t]] + 1]_vars

EarlyWaiting(k) ==
    {t \in CallersOf(k) : regclass[t] = "early" /\ pc[t] \in {"drop", "recv"}}

LateReceived(k) ==
    {t \in CallersOf(k) : regclass[t] = "late" /\ pc[t] \in {"ret", "done"}}

C9_PanicReleasesWaiters ==
    \A t \in Callers :
        (/\ AtRest
         /\ regclass[t] # "none"
         /\ WPhase(input[t]) = "panicked")
        => pc[t] # "recv"

\* C10 (as claimed): a failure of work for K1 leaves the lock free and
\* every request for another key K2 gets one execution of work(K2) and
\* has returned its value once the system is at rest.
C10_FailureIsLocal ==
    \A k1, k2 \in Keys :
        (k1 # k2 /\ WPhase(k1) = "panicked")
        => /\ lock # HeldByWorker(k1)
           /\ spawned[k2] <= 1
           /\ (AtRest /\ WPhase(k2) # "panicked")
                 => \A t \in CallersOf(k2) :
                       pc[t] = "done" /\ output[t] = work(k2)

\* C11: the calls of a #[mula] function construct one coordinator, however
\* many of them are first calls at the same time; every call that is inside
\* subscribe_to runs on that coordinator, every call that returned went
\* through subscribe_to, and calls with the same argument share one
\* execution.
C11_OneCoordinator ==
    /\ created <= 1
    /\ (cell = "set") = (created = 1)
    /\ \A t \in Callers :
          pc[t] \notin {"idle", "get_or_init", "new"} => mref[t] = 1
    /\ \A t \in Callers :
          pc[t] = "done" => regclass[t] # "none" /\ output[t] # NoVal
    /\ \A t \in Callers :
          regclass[t] # "none" => spawned[input[t]] = 1

C11_Witness ==
    \E t, u \in Callers :
        /\ t # u
        /\ created = 1
        /\ mref[t] = 1
        /\ mref[u] = 1
        /\ input[t] = input[u]
        /\ pc[t] = "done"
        /\ pc[u] = "done"
        /\ spawned[input[t]] = 1

\* C12: no thread holds the map lock while it waits in recv (or at any
\* point outside the lookup-to-drop section), and a caller that holds the
\* lock always has its next statement enabled, so the lock is handed on and
\* the execution can take it for its delivery pass.
C12_NoRecvUnderLock ==
    /\ \A t \in Callers :
          pc[t] \notin {"entry", "insert", "add_receiver", "drop"}
             => lock # HeldByCaller(t)
    /\ lock.kind = "caller" =>
          ENABLED (\E t \in Callers :
                      /\ lock = HeldByCaller(t)
                      /\ Entry(t) \/ Insert(t) \/ AddReceiver(t) \/ DropMap(t))

C12_Witness ==
    \E t \in Callers :
        /\ pc[t] = "recv"
        /\ channel[input[t]] = <<>>
        /\ lock = HeldByWorker(input[t])
        /\ WPhase(input[t]) = "broadcast"

\* C13 (as claimed): a delivery pass that has ended published as many copies
\* as there were live handles of the group when the pass began.
C13_PublishesPerLiveHandle ==
    \A k \in Keys :
        passes[k] >= 1 => published[k] = Cardinality(liveAtPass[k])

\* C14: Bus creation, handle registration and the delivery pass run only
\* under the map lock, and no handle of a group becomes live while the
\* group's pass is running.
C14_RegistryOpsUnderLock ==
    /\ \A t \in Callers :
          pc[t] \in {"entry", "insert", "add_receiver", "drop"}
             => lock = HeldByCaller(t)
    /\ \A k \in Keys :
          WPhase(k) = "broadcast" =>
             /\ lock = HeldByWorker(k)
             /\ {t \in Callers : input[t] = k /\ strong_count(t) > 0}
                   \subseteq liveAtPass[k]
             /\ \A i \in 1..Len(weak_receivers[k]) :
                   pc[weak_receivers[k][i]] \in {"recv", "ret", "done"}

C14_Witness ==
    \E k \in Keys : \E t \in Callers :
        /\ WPhase(k) = "broadcast"
        /\ bidx[k] >= 2
        /\ input[t] = k
        /\ pc[t] = "lock"

\* C15: when the execution, holding the lock, looks its key up, the key's
\* Bus is in the map; a key with an execution but no Bus yet has its
\* spawning caller at the insertion, holding the lock.
C15_GroupPresentAtLookup ==
    \A k \in Keys :
        /\ WPhase(k) = "broadcast" =>
              lock = HeldByWorker(k) /\ BroadcastKey(k) \in map
        /\ (WPhase(k) # "none" /\ k \notin map) =>
              \E t \in Callers :
                 /\ pc[t] = "insert"
                 /\ input[t] = k
                 /\ lock = HeldByCaller(t)
        /\ passes[k] = spawned[k] \/ WPhase(k) \notin {"none", "done"}

C15_Witness ==
    \E k \in Keys :
        /\ earlyFinish[k]
        /\ WPhase(k) = "broadcast"
        /\ k \in map

\* C16: the lock is held from the creation of a Bus to the registration of
\* the creating caller's handle, so the first handle on a Bus is the
\* creator's, it is live when the pass checks it, and a pass that has ended
\* published at least one copy.
C16_CreatorCounted ==
    /\ \A t \in Callers :
          pc[t] \in {"insert", "add_receiver"} => lock = HeldByCaller(t)
    /\ \A k \in Keys :
          WPhase(k) \in {"broadcast", "done"} =>
             /\ Len(weak_receivers[k]) >= 1
             /\ started[weak_receivers[k][1]]
             /\ input[weak_receivers[k][1]] = k
             /\ weak_receivers[k][1] \in liveAtPass[k]
    /\ \A k \in Keys :
          (WPhase(k) = "broadcast" /\ bidx[k] = 1)
             => strong_count(weak_receivers[k][1]) > 0
    /\ \A k \in Keys : passes[k] >= 1 => published[k] >= 1

C16_Witness ==
    \E k \in Keys : \E t \in Callers :
        /\ passes[k] = 1
        /\ published[k] >= 1
        /\ started[t]
        /\ input[t] = k
        /\ earlyFinish[k]
        /\ pc[t] = "done"

\* C17: a key that is in the map stays in the map in every step, with the
\* same Bus: its list of handles is only appended to and holds handles of
\* callers of that key.
C17_RegistryOnlyGrows ==
    [][\A k \in map :
          /\ k \in map'
          /\ Len(weak_receivers'[k]) >= Len(weak_receivers[k])
          /\ SubSeq(weak_receivers'[k], 1, Len(weak_receivers[k]))
                = weak_receivers[k]
          /\ \A i \in 1..Len(weak_receivers'[k]) :
                input'[weak_receivers'[k][i]] = k]_vars

C17_Witness ==
    \E k \in Keys :
        /\ k \in map
        /\ passes[k] = 1
        /\ CallersOf(k) # {}
        /\ \A t \in CallersOf(k) : pc[t] = "done"

C19_SenderAliveWhileBlocked ==
    \A t \in Callers :
        /\ pc[t] = "recv" => sender_alive(input[t])
        /\ pc[t] # "failed"
        /\ pc[t] \in {"ret", "done"} => output[t] = work(input[t])

C19_Witness ==
    \E t \in Callers :
        /\ pc[t] = "recv"
        /\ WPhase(input[t]) = "panicked"
        /\ \A k \in Keys : WPhase(k) \in {"none", "done", "panicked"}
        /\ channel[input[t]] = <<>>

TypeOK ==
    /\ pc \in [Callers -> {"idle", "get_or_init", "new", "lock", "entry", "insert", "add_receiver",
                           "drop", "recv", "ret", "done", "failed"}]
    /\ input \in [Callers -> Keys \cup {NoKey}]
    /\ output \in [Callers -> Values \cup {NoVal}]
    /\ map \subseteq Keys
    /\ wstep \in [Keys -> 0..5]
====
